---- MODULE Spec2Model ----
(***************************************************************************)
(* titletool: a batch utility that renders a centred title and subtitle    *)
(* over a flat or gradient background and writes one image file.           *)
(*                                                                         *)
(* Strings are TLA+ strings.  float values are modelled as exact rationals *)
(* [n |-> numerator, d |-> denominator]; d = 0 is the IEEE NaN produced by *)
(* 0.0f / 0.0f.  Colours are triples of rationals.                         *)
(***************************************************************************)
EXTENDS Integers, Sequences, FiniteSets, TLC

VARIABLES
    pc,         \* position of main(): which statement group runs next
    argv,       \* the command line after the program name
    argi,       \* index of the argument parse_args handles next
    argc,       \* number of entries of the command line, program name included
    tool,       \* the static TitleTool struct
    out,        \* what print_info / print_warning / print_error have emitted
    imagebuf,   \* the ImageBuf: its ImageSpec and the writes made to it
    font,       \* glyph metrics of the font asset, seen through text_size
    layout,     \* the locals titleroi, subtitleroi, titley, subtitley
    file,       \* outcome of imagebuf.write(tool.outputfile)
    status,     \* exit status of the process
    g,          \* draw_gradient activation: roi, colours, loop variable y
    pixels,     \* pixel storage written by ImageBuf::setpixel
    hsv,        \* argument of a rgb_from_hsv call
    rgb,        \* value returned by that call
    lay         \* arguments and result of the centring arithmetic

vars == <<pc, argv, argi, argc, tool, out, imagebuf, font, layout, file, status,
          g, pixels, hsv, rgb, lay>>

mainvars == <<argv, argi, argc, tool, out, imagebuf, font, layout, file, status>>

-----------------------------------------------------------------------------
(* Integer helpers *)

Abs(i) == IF i < 0 THEN -i ELSE i

\* C++ integer division and double -> int conversion truncate toward zero
TruncDiv(a, b) ==
    IF (a >= 0) = (b > 0) THEN Abs(a) \div Abs(b) ELSE -(Abs(a) \div Abs(b))

\* floor of a / b for b > 0 (std::floor)
FloorDiv(a, b) == a \div b

\* C++ % has the sign of the dividend
TruncMod(a, b) == a - b * TruncDiv(a, b)

RECURSIVE Gcd(_, _)
Gcd(a, b) == IF b = 0 THEN a ELSE Gcd(b, a % b)

-----------------------------------------------------------------------------
(* float arithmetic, exact *)

NaN == [n |-> 0, d |-> 0]

IsNaN(a) == a.d = 0

Norm(n, d) ==
    IF d = 0 THEN NaN
    ELSE LET s == IF d < 0 THEN -1 ELSE 1
             k == Gcd(Abs(n), Abs(d))
         IN  [n |-> (s * n) \div k, d |-> (s * d) \div k]

Rat(n, d) == Norm(n, d)
R(i) == [n |-> i, d |-> 1]

RAdd(a, b) == IF IsNaN(a) \/ IsNaN(b) THEN NaN
              ELSE Norm(a.n * b.d + b.n * a.d, a.d * b.d)
RSub(a, b) == IF IsNaN(a) \/ IsNaN(b) THEN NaN
              ELSE Norm(a.n * b.d - b.n * a.d, a.d * b.d)
RMul(a, b) == IF IsNaN(a) \/ IsNaN(b) THEN NaN
              ELSE Norm(a.n * b.n, a.d * b.d)
\* x / y in float: 0/0 is NaN (no other division by zero occurs in the tool)
RDiv(a, b) == IF IsNaN(a) \/ IsNaN(b) \/ b.n = 0 THEN NaN
              ELSE Norm(a.n * b.d, a.d * b.n)
\* comparisons with NaN are false
RLt(a, b) == ~IsNaN(a) /\ ~IsNaN(b) /\ a.n * b.d < b.n * a.d
RLe(a, b) == ~IsNaN(a) /\ ~IsNaN(b) /\ a.n * b.d <= b.n * a.d
RGe(a, b) == RLe(b, a)
RFloor(a) == FloorDiv(a.n, a.d)

\* static_cast<int>(i * num/den) for the double literals 0.2, 0.1, 0.08
ScaleInt(i, num, den) == TruncDiv(i * num, den)

-----------------------------------------------------------------------------
(* std::istringstream, as set_size uses it *)

Digits == "0123456789"

IsDigit(c) == \E i \in 1..Len(Digits) : SubSeq(Digits, i, i) = c

DigitVal(c) == (CHOOSE i \in 1..Len(Digits) : SubSeq(Digits, i, i) = c) - 1

IsSpace(c) == c = " "

Stream(str) == [buf |-> str, fail |-> FALSE, eof |-> FALSE]

Good(st) == ~st.fail /\ ~st.eof

RECURSIVE SkipWs(_)
SkipWs(str) ==
    IF Len(str) > 0 /\ IsSpace(Head(str)) THEN SkipWs(Tail(str)) ELSE str

\* the digits at the front of str: <<value, number of digits, rest>>
RECURSIVE ReadDigits(_, _, _)
ReadDigits(str, acc, cnt) ==
    IF Len(str) > 0 /\ IsDigit(Head(str))
    THEN ReadDigits(Tail(str), 10 * acc + DigitVal(Head(str)), cnt + 1)
    ELSE <<acc, cnt, str>>

\* iss >> i  for an int i whose current value is old
ExtractInt(st, old) ==
    IF ~Good(st)
    THEN [st |-> [st EXCEPT !.fail = TRUE], val |-> old]
    ELSE LET s1 == SkipWs(st.buf) IN
         IF Len(s1) = 0
         THEN [st |-> [buf |-> s1, fail |-> TRUE, eof |-> TRUE], val |-> old]
         ELSE LET neg  == Head(s1) = "-"
                  sgn  == Head(s1) = "-" \/ Head(s1) = "+"
                  s2   == IF sgn THEN Tail(s1) ELSE s1
                  d    == ReadDigits(s2, 0, 0)
                  rest == d[3]
              IN  IF d[2] = 0
                  THEN [st  |-> [buf |-> rest, fail |-> TRUE,
                                 eof |-> Len(rest) = 0],
                        val |-> 0]
                  ELSE [st  |-> [buf |-> rest, fail |-> FALSE,
                                 eof |-> Len(rest) = 0],
                        val |-> IF neg THEN -d[1] ELSE d[1]]

\* iss.ignore(): discard one character, whatever it is
Ignore(st) ==
    IF ~Good(st) THEN [st EXCEPT !.fail = TRUE]
    ELSE IF Len(st.buf) = 0 THEN [st EXCEPT !.eof = TRUE]
    ELSE [st EXCEPT !.buf = Tail(st.buf)]

\* the body of set_size: the size it leaves in tool.size and its return value
ParseSize(str, size) ==
    LET x  == ExtractInt(Stream(str), size[1])
        ig == Ignore(x.st)
        y  == ExtractInt(ig, size[2])
    IN  [size |-> <<x.val, y.val>>, ret |-> IF y.st.fail THEN 1 ELSE 0]

-----------------------------------------------------------------------------
(* std::map<std::string, float>: entries kept in ascending key order *)

Letters == "abcdefghijklmnopqrstuvwxyz"

CharCode(c) == CHOOSE i \in 1..Len(Letters) : SubSeq(Letters, i, i) = c

\* std::less<std::string>: lexicographic comparison
RECURSIVE StrLess(_, _)
StrLess(a, b) ==
    IF Len(b) = 0 THEN FALSE
    ELSE IF Len(a) = 0 THEN TRUE
    ELSE IF Head(a) = Head(b) THEN StrLess(Tail(a), Tail(b))
    ELSE CharCode(Head(a)) < CharCode(Head(b))

\* m[k] = v
RECURSIVE MapSet(_, _, _)
MapSet(m, k, v) ==
    IF Len(m) = 0 THEN <<[first |-> k, second |-> v]>>
    ELSE IF Head(m).first = k THEN <<[first |-> k, second |-> v]>> \o Tail(m)
    ELSE IF StrLess(k, Head(m).first) THEN <<[first |-> k, second |-> v]>> \o m
    ELSE <<Head(m)>> \o MapSet(Tail(m), k, v)

\* m.find(k): the index of the entry, 0 for m.end()
MapFind(m, k) ==
    IF \E i \in 1..Len(m) : m[i].first = k
    THEN CHOOSE i \in 1..Len(m) : m[i].first = k
    ELSE 0

\* the table main() builds on every gradient request, in insertion order
HueEntries ==
    << <<"red", 360>>, <<"orange", 30>>, <<"yellow", 60>>, <<"green", 120>>,
       <<"cyan", 180>>, <<"azure", 210>>, <<"blue", 240>>, <<"violet", 270>>,
       <<"magenta", 300>>, <<"rose", 330>> >>

RECURSIVE BuildMap(_, _)
BuildMap(m, entries) ==
    IF Len(entries) = 0 THEN m
    ELSE BuildMap(MapSet(m, Head(entries)[1], R(Head(entries)[2])),
                  Tail(entries))

hues == BuildMap(<<>>, HueEntries)

\* the join loop with the separator test inverted: no ", " is ever added
RECURSIVE JoinKeys_NoSeparator(_, _)
JoinKeys_NoSeparator(m, options) ==
    IF Len(m) = 0 THEN options
    ELSE JoinKeys_NoSeparator(Tail(m),
                  (IF Len(options) = 0 THEN options \o ", " ELSE options)
                      \o Head(m).first)

\* the loop that joins the keys of the map with ", "
RECURSIVE JoinKeys(_, _)
JoinKeys(m, options) ==
    IF Len(m) = 0 THEN options
    ELSE JoinKeys(Tail(m),
                  (IF Len(options) > 0 THEN options \o ", " ELSE options)
                      \o Head(m).first)

-----------------------------------------------------------------------------
(* utils - drawing *)

\* std::numeric_limits<float>::epsilon() = 2^-23
Epsilon == Rat(1, 8388608)

Vec3(x, y, z) == <<x, y, z>>

\* the hue left as it is: 360 is not folded to 0
NormalizeHue_Identity(hue) == hue

\* if (hue >= 360.0f) hue = 0.0f
NormalizeHue(hue) == IF RGe(hue, R(360)) THEN R(0) ELSE hue

rgb_from_hsv(c) ==
    LET saturation == c[2]
        value      == c[3]
        hue == NormalizeHue(c[1])
        hi  == TruncMod(RFloor(RDiv(hue, R(60))), 6)
        f   == RSub(RDiv(hue, R(60)), R(hi))
        p   == RMul(value, RSub(R(1), saturation))
        q   == RMul(value, RSub(R(1), RMul(f, saturation)))
        t   == RMul(value, RSub(R(1), RMul(RSub(R(1), f), saturation)))
    IN  IF RLt(value, Epsilon) THEN Vec3(R(0), R(0), R(0))
        ELSE IF RLt(saturation, Epsilon) THEN Vec3(value, value, value)
        ELSE CASE hi = 0 -> Vec3(value, t, p)
               [] hi = 1 -> Vec3(q, value, p)
               [] hi = 2 -> Vec3(p, value, t)
               [] hi = 3 -> Vec3(p, q, value)
               [] hi = 4 -> Vec3(t, p, value)
               [] hi = 5 -> Vec3(value, p, q)
               [] OTHER  -> Vec3(R(0), R(0), R(0))

\* ROI(xbegin, xend, ybegin, yend)
ROI(xb, xe, yb, ye) == [xbegin |-> xb, xend |-> xe, ybegin |-> yb, yend |-> ye]
RoiWidth(roi)  == roi.xend - roi.xbegin
RoiHeight(roi) == roi.yend - roi.ybegin

\* the blend divided by the height instead of height - 1
Blend_DivHeight(roi, y) == RDiv(R(y - roi.ybegin), R(RoiHeight(roi)))

\* float blend = static_cast<float>(y - roi.ybegin) / (roi.height() - 1)
Blend(roi, y) == RDiv(R(y - roi.ybegin), R(RoiHeight(roi) - 1))

\* (1 - blend) * startcolor[i] + blend * endcolor[i]
Mix(blend, a, b) == RAdd(RMul(RSub(R(1), blend), a), RMul(blend, b))

\* the {r, g, b, 1.0f} that one iteration of the outer loop writes
RowColor(roi, y, startcolor, endcolor) ==
    LET blend == Blend(roi, y)
    IN  << Mix(blend, startcolor[1], endcolor[1]),
           Mix(blend, startcolor[2], endcolor[2]),
           Mix(blend, startcolor[3], endcolor[3]),
           R(1) >>

-----------------------------------------------------------------------------
(* Bounds of the model *)

\* glyph heights are font[text] / GlyphMax of the font size
GlyphMax == 2
\* the pixel store of the gradient runs is MaxDim x MaxDim
MaxDim == 3
\* saturation and value inputs of the conversion runs are k / SVSteps
SVSteps == 4
\* hue inputs of the conversion runs are the multiples of 60 / HueDiv degrees
HueDiv == 4
\* extra heights, spacings and centres tried by the centring runs: 0..MaxExtra
MaxExtra == 2

-----------------------------------------------------------------------------
(* The command lines tried *)

EXIT_SUCCESS == 0
EXIT_FAILURE == 1
Running == -1

TitleArgs    == {"Hello, world!"}
SubtitleArgs == {"An image about Hello, world!"}
GradientArgs == {"blue", "red", "teal"}
SizeArgs     == {"2350,1000", "800x600", "800", "abc", "0,0", "-5,9",
                 "640,", "640,b"}
OutputArgs   == {"title.png"}
Texts        == {""} \cup TitleArgs \cup SubtitleArgs

Opt(flag, values) ==
    {<<>>} \cup {<<[flag |-> flag, value |-> v]>> : v \in values}

CommandLines ==
    { a \o b \o c \o d \o e \o f \o x :
        a \in Opt("--title", TitleArgs),
        b \in Opt("--subtitle", SubtitleArgs),
        c \in Opt("--gradient", GradientArgs),
        d \in Opt("--size", SizeArgs),
        e \in Opt("--outputfile", OutputArgs),
        f \in Opt("--help", {""}),
        x \in Opt("--bogus", {""}) }

\* flags declared without a %s parameter
IsSwitch(flag) == flag \in {"--help", "--bogus"}

RECURSIVE Argc(_)
Argc(args) ==
    IF Len(args) = 0 THEN 1
    ELSE (IF IsSwitch(Head(args).flag) THEN 1 ELSE 2) + Argc(Tail(args))

\* an empty string has no glyphs: its bounding box is empty
Fonts == { f \in [Texts -> 0..GlyphMax] : f[""] = 0 }

\* what the writer reports through imagebuf.geterror()
WriterError == "could not open file for writing"

-----------------------------------------------------------------------------
(* State of the other runs while main() is modelled, and conversely *)

NoGradient == [active |-> FALSE]
NoPixels   == <<>>
NoHsv      == <<>>
NoLay      == [given |-> FALSE]

TitleTool ==
    [help |-> FALSE, title |-> "", subtitle |-> "", outputfile |-> "",
     gradient |-> "", background |-> Vec3(R(0), R(0), R(0)),
     color |-> Vec3(R(1), R(1), R(1)), size |-> <<1024, 1024>>]

NoImage  == [allocated |-> FALSE, spec |-> <<0, 0>>, ops |-> <<>>]
NoFont   == [t \in Texts |-> 0]
NoLayout == [set |-> FALSE, ht |-> 0, hs |-> 0, titley |-> 0, subtitley |-> 0]
NoFile   == [result |-> "none", path |-> ""]

Init ==
    /\ pc = "parse_args"
    /\ argv \in CommandLines
    /\ argi = 1
    /\ argc = Argc(argv)
    /\ tool = TitleTool
    /\ out = <<>>
    /\ imagebuf = NoImage
    /\ font = NoFont
    /\ layout = NoLayout
    /\ file = NoFile
    /\ status = Running
    /\ g = NoGradient
    /\ pixels = NoPixels
    /\ hsv = NoHsv
    /\ rgb = NoHsv
    /\ lay = NoLay

-----------------------------------------------------------------------------
(* prints *)

Msg(stream, level, param, value) ==
    [stream |-> stream, level |-> level, param |-> param, value |-> value]

print_info(param, value)    == Msg("stdout", "info", param, value)
print_warning(param, value) == Msg("stdout", "warning", param, value)
print_error(param, value)   == Msg("stderr", "error", param, value)

-----------------------------------------------------------------------------
(* Argument callbacks, run by ap.parse_args in command-line order.  The     *)
(* int a callback returns is discarded by ArgParse::Arg::action.            *)

Parsing(flag) ==
    /\ pc = "parse_args"
    /\ argi <= Len(argv)
    /\ argv[argi].flag = flag

Consumed ==
    /\ argi' = argi + 1
    /\ UNCHANGED <<pc, argv, argc, imagebuf, font, layout, file, status,
                   g, pixels, hsv, rgb, lay>>

set_help ==
    /\ Parsing("--help")
    /\ tool' = [tool EXCEPT !.help = TRUE]
    /\ UNCHANGED out
    /\ Consumed

set_title ==
    /\ Parsing("--title")
    /\ tool' = [tool EXCEPT !.title = argv[argi].value]
    /\ UNCHANGED out
    /\ Consumed

set_subtitle ==
    /\ Parsing("--subtitle")
    /\ tool' = [tool EXCEPT !.subtitle = argv[argi].value]
    /\ UNCHANGED out
    /\ Consumed

set_gradient ==
    /\ Parsing("--gradient")
    /\ tool' = [tool EXCEPT !.gradient = argv[argi].value]
    /\ UNCHANGED out
    /\ Consumed

set_outputfile ==
    /\ Parsing("--outputfile")
    /\ tool' = [tool EXCEPT !.outputfile = argv[argi].value]
    /\ UNCHANGED out
    /\ Consumed

set_size ==
    /\ Parsing("--size")
    /\ LET r == ParseSize(argv[argi].value, tool.size)
       IN  /\ tool' = [tool EXCEPT !.size = r.size]
           /\ out' = IF r.ret = 1
                     THEN Append(out, print_error(
                              "could not parse size from string: ",
                              argv[argi].value))
                     ELSE out
    /\ Consumed

\* an argument ArgParse does not know: parse_args fails, the run ends
parse_error ==
    /\ Parsing("--bogus")
    /\ out' = Append(out, print_error("Invalid option", argv[argi].flag))
    /\ status' = EXIT_FAILURE
    /\ pc' = "done"
    /\ UNCHANGED <<argv, argi, argc, tool, imagebuf, font, layout, file,
                   g, pixels, hsv, rgb, lay>>

-----------------------------------------------------------------------------
(* main(), after parse_args *)

OtherRuns == <<g, pixels, hsv, rgb, lay>>

\* the output file test never firing
MissingOutputFile_Never(t) == FALSE

\* !tool.outputfile.size()
MissingOutputFile(t) == Len(t.outputfile) = 0

\* the checks that follow parse_args
check_args ==
    /\ pc = "parse_args"
    /\ argi > Len(argv)
    /\ IF tool.help
       THEN /\ out' = Append(out, print_info("help", ""))
            /\ status' = EXIT_SUCCESS
            /\ pc' = "done"
       ELSE IF MissingOutputFile(tool)
       THEN /\ out' = Append(out,
                         print_error("must have output file parameter", ""))
            /\ status' = EXIT_FAILURE
            /\ pc' = "done"
       ELSE IF argc <= 1
       THEN /\ out' = Append(out,
                         print_error("\nFor detailed help: titletool --help\n", ""))
            /\ status' = EXIT_FAILURE
            /\ pc' = "done"
       ELSE /\ out' = out
            /\ status' = status
            /\ pc' = "image"
    /\ UNCHANGED <<argv, argi, argc, tool, imagebuf, font, layout, file>>
    /\ UNCHANGED OtherRuns

\* the locals of main() derived from tool.size
roi          == ROI(0, tool.size[1], 0, tool.size[2])
height       == RoiHeight(roi)
titlesize    == ScaleInt(height, 1, 5)
subtitlesize == ScaleInt(height, 1, 10)
center       == roi.ybegin + TruncDiv(height, 2)
spacing      == ScaleInt(height, 2, 25)

\* ImageSpec spec(tool.size.x, tool.size.y, 4, FLOAT); ImageBuf imagebuf(spec)
create_imagebuf ==
    /\ pc = "image"
    /\ out' = out \o
          << print_info("titletool -- a utility for creating title images", ""),
             print_info("Writing title file: ", tool.outputfile) >>
    /\ imagebuf' = [allocated |-> TRUE, spec |-> tool.size, ops |-> <<>>]
    /\ pc' = "background"
    /\ UNCHANGED <<argv, argi, argc, tool, font, layout, file, status>>
    /\ UNCHANGED OtherRuns

GradientOp(r, startcolor, endcolor) ==
    [op |-> "draw_gradient", roi |-> r, startcolor |-> startcolor,
     endcolor |-> endcolor]

FillOp(r, color) ==
    [op |-> "fill", roi |-> r, color |-> color]

TextOp(x, y, text, fontsize, color) ==
    [op |-> "render_text", x |-> x, y |-> y, text |-> text,
     fontsize |-> fontsize, color |-> color, alignx |-> "Center",
     aligny |-> "Top"]

\* the gradient branch: the colours handed to draw_gradient for a hue
GradientStart(hue) == rgb_from_hsv(Vec3(hue, R(1), Rat(1, 2)))
GradientEnd(hue)   == rgb_from_hsv(Vec3(hue, Rat(1, 2), Rat(4, 5)))

\* bool found after the gradient block
Found(name) == Len(name) > 0 /\ MapFind(hues, name) # 0

\* what the gradient block prints
GradientMessages(name) ==
    IF Len(name) = 0 THEN <<>>
    ELSE IF MapFind(hues, name) # 0
    THEN << print_info("tool.gradient: ", name) >>
    ELSE << print_info("tool.gradient: ", name),
            print_warning("could not find hue for gradient: ", name),
            print_warning("available options are: ", JoinKeys(hues, "")) >>

\* the background block with the flat fill not guarded by !found
BackgroundOps_AlwaysFill(name) ==
    (IF Found(name)
     THEN << GradientOp(roi, GradientStart(hues[MapFind(hues, name)].second),
                             GradientEnd(hues[MapFind(hues, name)].second)) >>
     ELSE <<>>)
    \o
    << FillOp(roi, <<tool.background[1], tool.background[2],
                     tool.background[3], R(1)>>) >>

\* the writes the background block makes to the image
BackgroundOps(name) ==
    (IF Found(name)
     THEN << GradientOp(roi, GradientStart(hues[MapFind(hues, name)].second),
                             GradientEnd(hues[MapFind(hues, name)].second)) >>
     ELSE <<>>)
    \o
    (IF ~Found(name)
     THEN << FillOp(roi, <<tool.background[1], tool.background[2],
                           tool.background[3], R(1)>>) >>
     ELSE <<>>)

background ==
    /\ pc = "background"
    /\ out' = out \o GradientMessages(tool.gradient)
    /\ imagebuf' = [imagebuf EXCEPT !.ops = @ \o BackgroundOps(tool.gradient)]
    /\ pc' = "center"
    /\ UNCHANGED <<argv, argi, argc, tool, font, layout, file, status>>
    /\ UNCHANGED OtherRuns

\* ImageBufAlgo::text_size(text, fontsize, font): the bounding box
text_size(text, fontsize, f) ==
    LET h == IF fontsize > 0 THEN (fontsize * f[text]) \div GlyphMax ELSE 0
    IN  ROI(0, h * Len(text), 0, h)

\* the centring arithmetic with the spacing left out of the subtitle offset
CenterText_NoSpacing(ht, hs, sp, c) ==
    LET textheight == ht + sp + hs
        titley     == c - TruncDiv(textheight, 2)
    IN  [titley |-> titley, subtitley |-> titley + ht]

\* the centring arithmetic on the two measured heights
CenterText(ht, hs, sp, c) ==
    LET textheight == ht + sp + hs
        titley     == c - TruncDiv(textheight, 2)
    IN  [titley |-> titley, subtitley |-> titley + ht + sp]

\* the string measured for the subtitle box
SubtitleMeasured(t) == t.title

center_text ==
    /\ pc = "center"
    /\ \E f \in Fonts :
         LET titleroi    == text_size(tool.title, titlesize, f)
             subtitleroi == text_size(SubtitleMeasured(tool), subtitlesize, f)
             c == CenterText(RoiHeight(titleroi), RoiHeight(subtitleroi),
                             spacing, center)
         IN  /\ font' = f
             /\ layout' = [set |-> TRUE, ht |-> RoiHeight(titleroi),
                           hs |-> RoiHeight(subtitleroi),
                           titley |-> c.titley, subtitley |-> c.subtitley]
    /\ pc' = "title"
    /\ UNCHANGED <<argv, argi, argc, tool, out, imagebuf, file, status>>
    /\ UNCHANGED OtherRuns

render_title ==
    /\ pc = "title"
    /\ imagebuf' = [imagebuf EXCEPT !.ops = Append(@,
            TextOp(roi.xbegin + TruncDiv(RoiWidth(roi), 2), layout.titley,
                   tool.title, titlesize,
                   <<tool.color[1], tool.color[2], tool.color[3], R(1)>>))]
    /\ pc' = "subtitle"
    /\ UNCHANGED <<argv, argi, argc, tool, out, font, layout, file, status>>
    /\ UNCHANGED OtherRuns

render_subtitle ==
    /\ pc = "subtitle"
    /\ imagebuf' = [imagebuf EXCEPT !.ops = Append(@,
            TextOp(roi.xbegin + TruncDiv(RoiWidth(roi), 2), layout.subtitley,
                   tool.subtitle, subtitlesize,
                   <<tool.color[1], tool.color[2], tool.color[3], R(1)>>))]
    /\ pc' = "write"
    /\ UNCHANGED <<argv, argi, argc, tool, out, font, layout, file, status>>
    /\ UNCHANGED OtherRuns

\* the exit status main() returns after the write, whatever its outcome
WriteStatus(ok) == EXIT_SUCCESS

\* the write placed ahead of the subtitle block
write_BeforeSubtitle ==
    /\ pc = "subtitle"
    /\ \E ok \in BOOLEAN :
         /\ file' = [result |-> IF ok THEN "written" ELSE "failed",
                     path |-> tool.outputfile]
         /\ out' = IF ok THEN out
                   ELSE Append(out, print_error("could not write output file",
                                                WriterError))
         /\ status' = WriteStatus(ok)
    /\ pc' = "done"
    /\ UNCHANGED <<argv, argi, argc, tool, imagebuf, font, layout>>
    /\ UNCHANGED OtherRuns

\* imagebuf.write(tool.outputfile) and the return that follows
write ==
    /\ pc = "write"
    /\ \E ok \in BOOLEAN :
         /\ file' = [result |-> IF ok THEN "written" ELSE "failed",
                     path |-> tool.outputfile]
         /\ out' = IF ok THEN out
                   ELSE Append(out, print_error("could not write output file",
                                                WriterError))
         /\ status' = WriteStatus(ok)
    /\ pc' = "done"
    /\ UNCHANGED <<argv, argi, argc, tool, imagebuf, font, layout>>
    /\ UNCHANGED OtherRuns

Next ==
    \/ set_help
    \/ set_title
    \/ set_subtitle
    \/ set_gradient
    \/ set_outputfile
    \/ set_size
    \/ parse_error
    \/ check_args
    \/ create_imagebuf
    \/ background
    \/ center_text
    \/ render_title
    \/ render_subtitle
    \/ write

Spec == Init /\ [][Next]_vars

-----------------------------------------------------------------------------
(* Vocabulary of the properties of main() *)

HasArg(flag) == \E i \in 1..Len(argv) : argv[i].flag = flag

ArgValue(flag) == argv[CHOOSE i \in 1..Len(argv) : argv[i].flag = flag].value

Printed(level, param, value) ==
    \E i \in 1..Len(out) :
        /\ out[i].level = level
        /\ out[i].param = param
        /\ out[i].value = value

ErrorPrinted == \E i \in 1..Len(out) : out[i].level = "error"

\* the image writes that are background fills
Fills == SelectSeq(imagebuf.ops, LAMBDA o : o.op \in {"draw_gradient", "fill"})

PastBackground ==
    imagebuf.allocated /\ pc \in {"center", "title", "subtitle", "write", "done"}

\* the documented hue table
DocumentedHue ==
    [red |-> 360, orange |-> 30, yellow |-> 60, green |-> 120, cyan |-> 180,
     azure |-> 210, blue |-> 240, violet |-> 270, magenta |-> 300,
     rose |-> 330]

InTable(name) == name \in DOMAIN DocumentedHue

FullCanvas == ROI(0, imagebuf.spec[1], 0, imagebuf.spec[2])

\* a size string of the documented form: integer, comma, integer
IsInteger(str) ==
    LET body == IF Len(str) > 0 /\ Head(str) \in {"-", "+"}
                THEN Tail(str) ELSE str
    IN  /\ Len(body) > 0
        /\ \A i \in 1..Len(body) : IsDigit(SubSeq(body, i, i))

WellFormedSize(str) ==
    \E i \in 1..Len(str) :
        /\ SubSeq(str, i, i) = ","
        /\ IsInteger(SubSeq(str, 1, i - 1))
        /\ IsInteger(SubSeq(str, i + 1, Len(str)))

-----------------------------------------------------------------------------
(* C1: a run whose write failed reports the writer's message and never     *)
(* ends with a success status.                                             *)
C1_WriteFailureIsFailure ==
    (pc = "done" /\ file.result = "failed") =>
        /\ Printed("error", "could not write output file", WriterError)
        /\ status # EXIT_SUCCESS

(* C2: the layout measures the title string at the title size for ht and   *)
(* the subtitle string at the subtitle size for hs.                        *)
C2_HeightsMeasureOwnStrings ==
    layout.set =>
        /\ layout.ht = RoiHeight(text_size(tool.title, titlesize, font))
        /\ layout.hs = RoiHeight(text_size(tool.subtitle, subtitlesize, font))

(* C3: once the background step has run, the image holds exactly one fill: *)
(* the gradient over the full canvas from HSV(hue,1,0.5) to               *)
(* HSV(hue,0.5,0.8) iff the gradient name is non-empty and in the hue      *)
(* table, the flat background at alpha 1 iff it is empty or not found.     *)
C3_ExactlyOneFill ==
    PastBackground =>
        /\ Len(Fills) = 1
        /\ imagebuf.ops[1] = Fills[1]
        /\ (Fills[1].op = "draw_gradient") <=>
               (tool.gradient # "" /\ InTable(tool.gradient))
        /\ (Fills[1].op = "fill") <=>
               (tool.gradient = "" \/ ~InTable(tool.gradient))
        /\ Fills[1].roi = FullCanvas
        /\ Fills[1].op = "draw_gradient" =>
               LET hue == R(DocumentedHue[tool.gradient])
               IN  /\ Fills[1].startcolor =
                          rgb_from_hsv(Vec3(hue, R(1), Rat(1, 2)))
                   /\ Fills[1].endcolor =
                          rgb_from_hsv(Vec3(hue, Rat(1, 2), Rat(4, 5)))
        /\ Fills[1].op = "fill" =>
               Fills[1].color = <<tool.background[1], tool.background[2],
                                  tool.background[3], R(1)>>

C3_Witness ==
    /\ pc = "center"
    /\ tool.gradient = "blue"
    /\ Len(imagebuf.ops) = 1
    /\ imagebuf.ops[1].op = "draw_gradient"

(* C4: a non-empty gradient name missing from the hue table is not fatal:  *)
(* a warning names it, a warning lists the ten valid names joined by ", "  *)
(* in one fixed order, the flat fill is used, and the run ends only after  *)
(* both text draws and the write.                                          *)
ValidNames ==
    "azure, blue, cyan, green, magenta, orange, red, rose, violet, yellow"

GradientMiss == tool.gradient # "" /\ ~InTable(tool.gradient)

C4_GradientMissNotFatal ==
    (PastBackground /\ GradientMiss) =>
        /\ Printed("warning", "could not find hue for gradient: ",
                   tool.gradient)
        /\ Printed("warning", "available options are: ", ValidNames)
        /\ \A i \in 1..Len(out) :
               (out[i].level = "warning"
                   /\ out[i].param = "available options are: ")
               => out[i].value = ValidNames
        /\ imagebuf.ops[1].op = "fill"
        /\ pc = "done" =>
               /\ Len(imagebuf.ops) = 3
               /\ imagebuf.ops[2].op = "render_text"
               /\ imagebuf.ops[3].op = "render_text"
               /\ file.result # "none"
               /\ file.path = tool.outputfile

C4_Witness ==
    /\ pc = "done"
    /\ tool.gradient = "teal"
    /\ file.result = "written"
    /\ Printed("warning", "available options are: ", ValidNames)

(* C5 as stated: with an empty outputfile the run reports an error, exits  *)
(* with a failure status and no canvas is allocated, filled, drawn on or   *)
(* written.                                                                *)
NoCanvas ==
    /\ ~imagebuf.allocated
    /\ imagebuf.ops = <<>>
    /\ file.result = "none"

C5_Original ==
    (pc = "done" /\ tool.outputfile = "") =>
        /\ ErrorPrinted
        /\ status = EXIT_FAILURE
        /\ NoCanvas

(* C5 amended: with an empty outputfile no canvas is ever allocated,       *)
(* filled, drawn on or written; the run ends with an error report and a    *)
(* failure status unless --help was given, in which case it prints the     *)
(* help text and ends with a success status.                               *)
C5_MissingOutputFile ==
    /\ tool.outputfile = "" => NoCanvas
    /\ (pc = "done" /\ tool.outputfile = "") =>
          IF tool.help /\ argi > Len(argv)
          THEN status = EXIT_SUCCESS /\ Printed("info", "help", "")
          ELSE /\ status = EXIT_FAILURE
               /\ ErrorPrinted
               /\ argi > Len(argv) =>
                      Printed("error", "must have output file parameter", "")

C5_Witness ==
    /\ pc = "done"
    /\ tool.outputfile = ""
    /\ ~tool.help
    /\ argi > Len(argv)
    /\ status = EXIT_FAILURE
    /\ Printed("error", "must have output file parameter", "")

(* C6: a --size value that fails integer parsing or lacks the comma is     *)
(* fatal before the pipeline: the run never allocates the canvas or writes *)
(* the file.                                                               *)
C6_BadSizeIsFatal ==
    (HasArg("--size") /\ ~WellFormedSize(ArgValue("--size"))) =>
        /\ ~imagebuf.allocated
        /\ file.result = "none"

(* C7: whenever the canvas is allocated for a run whose --size string the  *)
(* parser accepted, or that gave none, width and height are positive.      *)
SizeAccepted ==
    HasArg("--size") => ParseSize(ArgValue("--size"), TitleTool.size).ret = 0

C7_SizePositive ==
    (imagebuf.allocated /\ SizeAccepted) =>
        /\ imagebuf.spec[1] > 0
        /\ imagebuf.spec[2] > 0

-----------------------------------------------------------------------------
(* draw_gradient on a pixel store, one iteration of the outer loop a step  *)

Palette ==
    { Vec3(R(1), R(0), R(0)), Vec3(R(0), R(0), R(1)),
      Vec3(R(0), Rat(1, 2), Rat(1, 2)) }

Regions ==
    { ROI(xb, xe, yb, ye) :
        xb \in 0..MaxDim, xe \in 0..MaxDim, yb \in 0..MaxDim, ye \in 0..MaxDim }

Coords == (0..(MaxDim - 1)) \X (0..(MaxDim - 1))

MainIdle ==
    /\ argv = <<>>
    /\ argi = 1
    /\ argc = 1
    /\ tool = TitleTool
    /\ out = <<>>
    /\ imagebuf = NoImage
    /\ font = NoFont
    /\ layout = NoLayout
    /\ file = NoFile
    /\ status = Running

InitGradient ==
    /\ pc = "draw_gradient"
    /\ \E r \in Regions, a \in Palette, b \in Palette :
         /\ r.xbegin <= r.xend
         /\ r.ybegin <= r.yend
         /\ g = [active |-> TRUE, roi |-> r, startcolor |-> a, endcolor |-> b,
                 y |-> r.ybegin, blends |-> <<>>]
    /\ pixels = [c \in Coords |->
                    [color |-> <<R(0), R(0), R(0), R(0)>>, writes |-> 0]]
    /\ MainIdle
    /\ hsv = NoHsv
    /\ rgb = NoHsv
    /\ lay = NoLay

\* for (x = roi.xbegin; x < roi.xend; ++x) imagebuf.setpixel(x, y, color)
SetRow(px, r, y, color) ==
    [c \in DOMAIN px |->
        IF c[2] = y /\ c[1] >= r.xbegin /\ c[1] < r.xend
        THEN [color |-> color, writes |-> px[c].writes + 1]
        ELSE px[c]]

gradient_row ==
    /\ pc = "draw_gradient"
    /\ g.y < g.roi.yend
    /\ pixels' = SetRow(pixels, g.roi, g.y,
                        RowColor(g.roi, g.y, g.startcolor, g.endcolor))
    /\ g' = [g EXCEPT !.y = @ + 1,
                      !.blends = Append(@, Blend(g.roi, g.y))]
    /\ UNCHANGED <<pc, hsv, rgb, lay>>
    /\ UNCHANGED mainvars

gradient_return ==
    /\ pc = "draw_gradient"
    /\ g.y >= g.roi.yend
    /\ pc' = "done"
    /\ UNCHANGED <<g, pixels, hsv, rgb, lay>>
    /\ UNCHANGED mainvars

NextGradient ==
    \/ gradient_row
    \/ gradient_return

SpecGradient == InitGradient /\ [][NextGradient]_vars

(* C8: over a region of height H >= 2, the first row is written with       *)
(* exactly startcolor and the last with exactly endcolor, the blend of row *)
(* y is (y - ybegin) / (H - 1), within [0,1] and non-decreasing, all       *)
(* pixels of a row get the same colour with alpha 1, every pixel of the    *)
(* region is written exactly once and no pixel outside it is written.      *)
InRegion(c, r) ==
    /\ c[1] >= r.xbegin /\ c[1] < r.xend
    /\ c[2] >= r.ybegin /\ c[2] < r.yend

Rgba(c) == <<c[1], c[2], c[3], R(1)>>

C8_GradientFill ==
    (g.active /\ RoiHeight(g.roi) >= 2) =>
        /\ \A c \in Coords : pixels[c].writes <= 1
        /\ \A c \in Coords : ~InRegion(c, g.roi) =>
               /\ pixels[c].writes = 0
               /\ pixels[c].color = <<R(0), R(0), R(0), R(0)>>
        /\ \A i \in 1..Len(g.blends) :
               /\ g.blends[i] = Rat(i - 1, RoiHeight(g.roi) - 1)
               /\ RLe(R(0), g.blends[i]) /\ RLe(g.blends[i], R(1))
               /\ i > 1 => RLe(g.blends[i - 1], g.blends[i])
        /\ \A c \in Coords : (InRegion(c, g.roi) /\ c[2] < g.y) =>
               /\ pixels[c].writes = 1
               /\ pixels[c].color[4] = R(1)
               /\ \A e \in Coords : (InRegion(e, g.roi) /\ e[2] = c[2]) =>
                      pixels[e].color = pixels[c].color
               /\ c[2] = g.roi.ybegin => pixels[c].color = Rgba(g.startcolor)
               /\ c[2] = g.roi.yend - 1 => pixels[c].color = Rgba(g.endcolor)
        /\ pc = "done" =>
               /\ Len(g.blends) = RoiHeight(g.roi)
               /\ \A c \in Coords : InRegion(c, g.roi) => pixels[c].writes = 1

C8_Witness ==
    /\ pc = "done"
    /\ g.active
    /\ RoiHeight(g.roi) = MaxDim
    /\ RoiWidth(g.roi) >= 2
    /\ g.startcolor # g.endcolor
    /\ pixels[<<g.roi.xbegin, g.roi.ybegin>>].color = Rgba(g.startcolor)
    /\ pixels[<<g.roi.xbegin, g.roi.yend - 1>>].color = Rgba(g.endcolor)

-----------------------------------------------------------------------------
(* rgb_from_hsv on hues in [0,360] and saturation, value in [0,1] *)

HueInputs == { Rat(60 * k, HueDiv) : k \in 0..(6 * HueDiv) }
UnitInputs == { Rat(k, SVSteps) : k \in 0..SVSteps }

InitHsv ==
    /\ pc = "rgb_from_hsv"
    /\ hsv \in HueInputs \X UnitInputs \X UnitInputs
    /\ rgb = NoHsv
    /\ MainIdle
    /\ g = NoGradient
    /\ pixels = NoPixels
    /\ lay = NoLay

hsv_call ==
    /\ pc = "rgb_from_hsv"
    /\ rgb' = rgb_from_hsv(hsv)
    /\ pc' = "done"
    /\ UNCHANGED <<hsv, g, pixels, lay>>
    /\ UNCHANGED mainvars

NextHsv == hsv_call

SpecHsv == InitHsv /\ [][NextHsv]_vars

\* the reference conversion, in chroma form, with the hue taken modulo 360
RAbs(a) == IF a.n < 0 THEN [n |-> -a.n, d |-> a.d] ELSE a

\* a modulo m for rationals a >= 0 and an integer m > 0
RModInt(a, m) == RSub(a, R(m * FloorDiv(a.n, a.d * m)))

ReferenceRgb(c) ==
    LET h      == RDiv(RModInt(c[1], 360), R(60))
        chroma == RMul(c[3], c[2])
        x      == RMul(chroma, RSub(R(1), RAbs(RSub(RModInt(h, 2), R(1)))))
        m      == RSub(c[3], chroma)
        sector == RFloor(h)
        base   == CASE sector = 0 -> <<chroma, x, R(0)>>
                    [] sector = 1 -> <<x, chroma, R(0)>>
                    [] sector = 2 -> <<R(0), chroma, x>>
                    [] sector = 3 -> <<R(0), x, chroma>>
                    [] sector = 4 -> <<x, R(0), chroma>>
                    [] sector = 5 -> <<chroma, R(0), x>>
    IN  <<RAdd(base[1], m), RAdd(base[2], m), RAdd(base[3], m)>>

(* C9: rgb_from_hsv returns the reference HSV->RGB colour for every hue in *)
(* [0,360] and saturation, value in [0,1]: black for value 0, (v,v,v) for  *)
(* saturation 0, red, green and blue at hues 0, 120 and 240 with s = v = 1,*)
(* and at hue 360 the colour of hue 0.                                     *)
C9_HsvReference ==
    (pc = "done" /\ hsv # NoHsv) =>
        /\ rgb = ReferenceRgb(hsv)
        /\ hsv[3] = R(0) => rgb = <<R(0), R(0), R(0)>>
        /\ (hsv[3] # R(0) /\ hsv[2] = R(0)) => rgb = <<hsv[3], hsv[3], hsv[3]>>
        /\ hsv = <<R(0), R(1), R(1)>> => rgb = <<R(1), R(0), R(0)>>
        /\ hsv = <<R(120), R(1), R(1)>> => rgb = <<R(0), R(1), R(0)>>
        /\ hsv = <<R(240), R(1), R(1)>> => rgb = <<R(0), R(0), R(1)>>
        /\ hsv[1] = R(360) => rgb = ReferenceRgb(<<R(0), hsv[2], hsv[3]>>)

C9_Witness ==
    /\ pc = "done"
    /\ hsv = <<R(360), Rat(1, 2), R(1)>>
    /\ rgb = <<R(1), Rat(1, 2), Rat(1, 2)>>

-----------------------------------------------------------------------------
(* the centring arithmetic on measured heights, spacing and centre *)

Heights  == {100, 50} \cup 0..MaxExtra
Spacings == {20} \cup 0..MaxExtra
Centers  == {500} \cup 0..MaxExtra

InitLayout ==
    /\ pc = "center_text"
    /\ \E ht \in Heights, hs \in Heights, sp \in Spacings, c \in Centers :
         lay = [given |-> TRUE, ht |-> ht, hs |-> hs, spacing |-> sp,
                center |-> c, set |-> FALSE, titley |-> 0, subtitley |-> 0]
    /\ MainIdle
    /\ g = NoGradient
    /\ pixels = NoPixels
    /\ hsv = NoHsv
    /\ rgb = NoHsv

layout_call ==
    /\ pc = "center_text"
    /\ lay.given
    /\ LET c == CenterText(lay.ht, lay.hs, lay.spacing, lay.center)
       IN  lay' = [lay EXCEPT !.set = TRUE, !.titley = c.titley,
                              !.subtitley = c.subtitley]
    /\ pc' = "done"
    /\ UNCHANGED <<g, pixels, hsv, rgb>>
    /\ UNCHANGED mainvars

NextLayout == layout_call

SpecLayout == InitLayout /\ [][NextLayout]_vars

(* C10: for measured heights ht, hs >= 0 and spacing >= 0 the layout gives *)
(* titleY = centerY - (ht + spacing + hs) div 2 and                        *)
(* subtitleY = titleY + ht + spacing; ht = 100, hs = 50, spacing = 20 and  *)
(* centerY = 500 give titleY = 415 and subtitleY = 535.                    *)
C10_LayoutArithmetic ==
    (lay.given /\ lay.set) =>
        /\ lay.titley = lay.center - ((lay.ht + lay.spacing + lay.hs) \div 2)
        /\ lay.subtitley = lay.titley + lay.ht + lay.spacing
        /\ lay.subtitley - lay.titley = lay.ht + lay.spacing
        /\ (lay.ht = 100 /\ lay.hs = 50 /\ lay.spacing = 20
              /\ lay.center = 500) =>
               (lay.titley = 415 /\ lay.subtitley = 535)

C10_Witness ==
    /\ pc = "done"
    /\ lay.given /\ lay.set
    /\ lay.ht = 100 /\ lay.hs = 50 /\ lay.spacing = 20 /\ lay.center = 500
    /\ lay.titley = 415 /\ lay.subtitley = 535

-----------------------------------------------------------------------------
(* C11: over a region of height exactly 1 the blend of the single row is   *)
(* 0 and the row is written with exactly startcolor, a well-defined        *)
(* colour and not a NaN.                                                   *)
C11_SingleRowIsStartColor ==
    (g.active /\ RoiHeight(g.roi) = 1) =>
        \A c \in Coords : (InRegion(c, g.roi) /\ c[2] < g.y) =>
            /\ ~IsNaN(g.blends[c[2] - g.roi.ybegin + 1])
            /\ g.blends[c[2] - g.roi.ybegin + 1] = R(0)
            /\ \A k \in 1..4 : ~IsNaN(pixels[c].color[k])
            /\ pixels[c].color = Rgba(g.startcolor)

-----------------------------------------------------------------------------
(* C12: in a run that passes argument validation the image is written by   *)
(* the background fill first, then by the title draw, then by the subtitle *)
(* draw, both draws anchored at the canvas mid-x with centre/top alignment *)
(* and the foreground colour; the image is serialized to the output path   *)
(* exactly once, after both draws, and nothing writes the image after it.  *)
Foreground == <<tool.color[1], tool.color[2], tool.color[3], R(1)>>

IsDraw(o, text, fontsize, y) ==
    /\ o.op = "render_text"
    /\ o.text = text
    /\ o.fontsize = fontsize
    /\ o.x = TruncDiv(imagebuf.spec[1], 2)
    /\ o.y = y
    /\ o.alignx = "Center"
    /\ o.aligny = "Top"
    /\ o.color = Foreground

C12_Order ==
    imagebuf.allocated =>
        /\ Len(imagebuf.ops) <= 3
        /\ Len(imagebuf.ops) >= 1 =>
               imagebuf.ops[1].op \in {"fill", "draw_gradient"}
        /\ Len(imagebuf.ops) >= 2 =>
               IsDraw(imagebuf.ops[2], tool.title, titlesize, layout.titley)
        /\ Len(imagebuf.ops) >= 3 =>
               IsDraw(imagebuf.ops[3], tool.subtitle, subtitlesize,
                      layout.subtitley)
        /\ file.result # "none" =>
               /\ Len(imagebuf.ops) = 3
               /\ file.path = tool.outputfile
               /\ pc = "done"
        /\ pc = "done" => file.result # "none"

C12_Step ==
    /\ file.result # "none" => (file' = file /\ imagebuf' = imagebuf)
    /\ file' # file =>
           /\ file.result = "none"
           /\ Len(imagebuf.ops) = 3
           /\ imagebuf' = imagebuf
    /\ imagebuf.allocated /\ imagebuf' # imagebuf =>
           /\ Len(imagebuf'.ops) = Len(imagebuf.ops) + 1
           /\ SubSeq(imagebuf'.ops, 1, Len(imagebuf.ops)) = imagebuf.ops
           /\ imagebuf'.spec = imagebuf.spec

C12_Ordering == [](C12_Order) /\ [][C12_Step]_vars

C12_Witness ==
    /\ pc = "done"
    /\ file.result = "written"
    /\ Len(imagebuf.ops) = 3
    /\ imagebuf.ops[1].op = "draw_gradient"
    /\ imagebuf.ops[2].text = "Hello, world!"
    /\ imagebuf.ops[3].text = "An image about Hello, world!"
    /\ layout.subtitley > layout.titley

====
